---- MODULE Spec2Model ----
(***************************************************************************)
(* emploi-api: the authentication / session-token lifecycle of             *)
(* controllers/authController.js over models/userModel.js, and the         *)
(* ownership checks of the Completed controller.                           *)
(*                                                                         *)
(* Time is Date.now() in milliseconds.  A JWT is modelled by its payload   *)
(* (id, iat, exp) plus a flag saying whether its signature verifies.       *)
(* bcrypt and sha256 are modelled as one-way tagged values.                *)
(***************************************************************************)
EXTENDS Integers, Sequences, FiniteSets, TLC

(* ------------------------------ bounds -------------------------------- *)

\* first clock reading of a run, in ms (Date.now() is far from zero)
Epoch == 3500
\* the clock is read at multiples of this many ms past the first reading
Grain == 1000
\* number of Grain-steps explored past the first reading
MaxFine == 1
\* session / confirmation tokens in circulation
MaxTokens == 2
\* crypto.randomBytes draws made by createPasswordResetToken
MaxResetTokens == 2
\* Completed documents ever created
MaxCompleted == 1

(* ------------------------- program constants -------------------------- *)

\* process.env.JWT_EXPIRATION_TIME, in seconds
JWT_EXPIRATION_TIME == 900
\* Date.now() + 10 * 60 * 1000
RESET_TOKEN_TTL == 10 * 60 * 1000
\* this.passwordChangedAt = Date.now() - 1000
CHANGED_AT_SKEW == 1000
\* an unset Date / String field of the user document
NoDate == 0
NoHash == 0
\* a password path that is not selected, or set to undefined
NoPassword == <<>>

(* --------------------------- input domains ---------------------------- *)

Emails == {"a@x.io", "A@X.io", "b@x.io", "not-an-email"}
EmailInputs == Emails \cup {""}
Passwords == {"pw-alpha", "pw-bravo"}
PasswordInputs == Passwords \cup {""}
PayloadRoles == {"", "admin"}
\* the forgotPassword requests that may be in flight together
Reqs == {1, 2}
Roles == {"user", "admin", "rep"}

\* the schema's lowercase: true setter on email
Lowercase(e) == IF e = "A@X.io" THEN "a@x.io" ELSE e

\* validator.isEmail
IsEmail(e) == Lowercase(e) \in {"a@x.io", "b@x.io"}

\* the clock readings a run may observe: a fine window after the first
\* reading, the readings around the expiry of a reset token created at the
\* first reading or one Grain later, and the two readings around the
\* expiry of a JWT signed at the first one
FineInstants == {Epoch + k * Grain : k \in 0..MaxFine}
ResetInstants == {Epoch + RESET_TOKEN_TTL + k * Grain : k \in {0 - 1, 0, 1}}
JwtInstants == {Epoch + JWT_EXPIRATION_TIME * 1000 - Grain,
                Epoch + JWT_EXPIRATION_TIME * 1000}

(* ------------------------------ hashing ------------------------------- *)

\* bcrypt.hash(password, 12): never equal to the plaintext
BcryptHash(p) == <<"bcrypt", p>>

\* bcrypt.compare(passwordToCheck, correctPassword)
isPasswordCorrect(passwordToCheck, correctPassword) ==
    correctPassword = BcryptHash(passwordToCheck)

\* raw reset tokens are 1..MaxResetTokens; sha256 is injective and has no
\* fixed point, and the digest of a digest is again a new value
RawTokens == 1..MaxResetTokens
Sha256(x) == x + MaxResetTokens
\* what a caller may present as reset token: a raw token, or the stored
\* digest of the first one
ResetInputs == RawTokens \cup {Sha256(1)}

(* ------------------------------- JWT ---------------------------------- *)

NoJwt == [id |-> 0, iat |-> 0, exp |-> 0, sig |-> FALSE]

\* Math.floor(Date.now() / 1000), the iat / clockTimestamp of jsonwebtoken
Seconds(ms) == ms \div 1000

\* parseInt(x / 1000, 10): truncation toward zero
ParseIntSeconds(ms) == IF ms >= 0 THEN ms \div 1000 ELSE 0 - ((0 - ms) \div 1000)

VARIABLES
    production,   \* process.env.NODE_ENV === 'production'
    now,          \* Date.now()
    users,        \* the User collection: id -> document
    tokens,       \* JWTs handed out: [jwt, at, via]
    resetIssued,  \* reset tokens drawn so far: raw token t -> [user, at, mailed, used]
    fp,           \* forgotPassword requests in flight
    completed,    \* the Completed collection: id -> [user, test, live]
    out           \* outcome of the last handler that ran

vars == <<production, now, users, tokens, resetIssued, fp, completed, out>>


(* ------------------------------ helpers ------------------------------- *)

\* a token signed for the other seeded account
getJwtToken_OtherUser(id) ==
    [id |-> 3 - id, iat |-> Seconds(now), exp |-> Seconds(now) + JWT_EXPIRATION_TIME,
     sig |-> TRUE]

\* jwt.sign({ id }, secret, { expiresIn })
getJwtToken(id) ==
    [id |-> id, iat |-> Seconds(now), exp |-> Seconds(now) + JWT_EXPIRATION_TIME,
     sig |-> TRUE]

\* a token a client holds: the JWT, when it was signed, and how it was
\* delivered (response body / cookie, or the link of a confirmation mail)
Handed(jwt, via) == [jwt |-> jwt, at |-> now, via |-> via]

\* the client keeps the token it was handed only while it has room for it
Kept(id, via, keep) ==
    IF keep THEN tokens \cup {Handed(getJwtToken(id), via)} ELSE tokens

CanKeep(keep) == keep => Cardinality(tokens) < MaxTokens

\* what a handler answered: res.status(..).json(..) or next(error); a
\* library error that carries no statusCode has status 0 and its name as
\* message; req is the credential or input the request presented, mail the
\* token of the confirmation link the handler mailed, document the user
\* documents serialised into data.document of the response body
Outcome(op, status, message, tokenId, arg, req) ==
    [op |-> op, status |-> status, message |-> message, tokenId |-> tokenId,
     arg |-> arg, req |-> req, mail |-> NoJwt, document |-> <<>>]

\* the status the boundary layer answers with: an ErrorHandler's own
\* statusCode; for an error thrown by a library, the status of its kind
\* (a token that fails verification or has expired is an AuthError, a
\* schema ValidationError or duplicate a ValidationError, anything else an
\* opaque 500)
ResponseStatus(o) ==
    IF o.status # 0 THEN o.status
    ELSE IF o.message \in {"JsonWebTokenError", "TokenExpiredError"} THEN 401
    ELSE IF o.message \in {"ValidationError", "E11000 duplicate key"} THEN 400
    ELSE 500

\* userSchema.pre(/^find/): isActive: { $ne: false }
ActiveIds == {i \in DOMAIN users : users[i].isActive}

\* User.findOne({ email })
FindByEmail(e) == {i \in ActiveIds : users[i].email = Lowercase(e)}

\* User.findById(id)
FindById(id) == {i \in ActiveIds : i = id}

IdleReq == [pc |-> "idle", user |-> 0, resetToken |-> 0, trace |-> <<>>]

\* the second pre('save') hook, for a document that is not new
ChangedAtOnSave == now - CHANGED_AT_SKEW

\* the two pre('save') hooks after user.password = p on a stored document
WithNewPassword(u, p) ==
    [u EXCEPT !.password = BcryptHash(p), !.passwordChangedAt = ChangedAtOnSave]

\* the comparison with the division by 1000 left out
isPasswordChangedAfterTokenIsIssued_Millis(u, jwtTimeStamp) ==
    IF u.passwordChangedAt # NoDate
    THEN u.passwordChangedAt > jwtTimeStamp
    ELSE FALSE

isPasswordChangedAfterTokenIsIssued(u, jwtTimeStamp) ==
    IF u.passwordChangedAt # NoDate
    THEN ParseIntSeconds(u.passwordChangedAt) > jwtTimeStamp
    ELSE FALSE

(* ------------------------------ signUp -------------------------------- *)

SignUpBodies ==
    [email : Emails, password : {"pw-alpha"}, passwordConfirmation : Passwords,
     role : PayloadRoles, confirmed : BOOLEAN]

\* the development allow-list used in every mode
SignUpFields_AllModes(prod) ==
    {"name", "email", "photo", "password", "passwordConfirmation", "role", "confirmed"}

\* the allow-list handed to filterBody
SignUpFields(prod) ==
    IF prod
    THEN {"name", "email", "photo", "password", "passwordConfirmation"}
    ELSE {"name", "email", "photo", "password", "passwordConfirmation", "role",
          "confirmed"}

\* filterBody(req.body, ...allowed): fields outside the list are dropped,
\* so the schema defaults apply
filterBody(body, allowed) ==
    [email |-> body.email,
     password |-> body.password,
     passwordConfirmation |-> body.passwordConfirmation,
     role |-> IF "role" \in allowed THEN body.role ELSE "",
     confirmed |-> IF "confirmed" \in allowed THEN body.confirmed ELSE FALSE]

\* the schema without the passwordConfirmation validator
InvalidPaths_NoConfirmation(b) ==
    (IF ~IsEmail(b.email) THEN {"email"} ELSE {})
    \cup (IF b.role \notin Roles \cup {""} THEN {"role"} ELSE {})

\* schema validation run by User.create: the paths of the ValidationError
InvalidPaths(b) ==
    (IF ~IsEmail(b.email) THEN {"email"} ELSE {})
    \cup (IF b.role \notin Roles \cup {""} THEN {"role"} ELSE {})
    \cup (IF b.password # b.passwordConfirmation THEN {"passwordConfirmation"} ELSE {})

SchemaValid(b) == InvalidPaths(b) = {}

\* the unique index on email (soft-deleted documents are still indexed)
EmailTaken(e) == \E i \in DOMAIN users : users[i].email = Lowercase(e)

\* the document User.create stores: pre('save') hashes the password and,
\* the document being new, leaves passwordChangedAt unset
NewUser(b) ==
    [email |-> Lowercase(b.email),
     role |-> IF b.role = "" THEN "user" ELSE b.role,
     password |-> BcryptHash(b.password),
     passwordChangedAt |-> NoDate,
     passwordResetToken |-> NoHash,
     passwordResetExpiresIn |-> NoDate,
     isActive |-> TRUE,
     confirmed |-> b.confirmed]

\* sendConfirmationMail(user, req, res): the link carries getJwtToken(id);
\* when delivery throws, no response is written
ConfirmationMail(op, id, mailOk, keep, req) ==
    IF mailOk
    THEN /\ CanKeep(keep)
         /\ tokens' = Kept(id, "mail", keep)
         /\ out' = [Outcome(op, 200, "Please Confirm Your Email to continue.",
                            NoJwt, id, req) EXCEPT !.mail = getJwtToken(id)]
    ELSE /\ ~keep
         /\ tokens' = tokens
         /\ out' = Outcome(op, 0, "unhandled rejection", NoJwt, id, req)

\* the document a handler holds when it calls sendJwtToken: confirmMail
\* read it without select('+password'); User.create, the two reads with
\* select('+password') and the assignment in resetPassword leave the
\* password path set, to the hash once saved
InMemory(op, u) == IF op = "confirmMail" THEN [u EXCEPT !.password = NoPassword] ELSE u

\* the document serialised as it is held
ResponseDocument_AsHeld(u) == u

\* user.password = undefined before res.status(..).json({ .. user .. })
ResponseDocument(u) == [u EXCEPT !.password = NoPassword]

\* sendJwtToken(user, statusCode, req, res), called once the handler has
\* saved the document
sendJwtToken(op, id, statusCode, keep, req) ==
    /\ CanKeep(keep)
    /\ tokens' = Kept(id, "session", keep)
    /\ out' = [Outcome(op, statusCode, "success", getJwtToken(id), id, req)
                 EXCEPT !.document = <<ResponseDocument(InMemory(op, users'[id]))>>]

\* next(error) or a thrown error: nothing is handed out
Fail(op, status, message, arg, req) ==
    /\ tokens' = tokens
    /\ out' = Outcome(op, status, message, NoJwt, arg, req)

SignUp(body, mailOk, keep) ==
    LET b == filterBody(body, SignUpFields(production))
        id == Len(users) + 1
    IN  /\ UNCHANGED <<production, now, resetIssued, fp, completed>>
        /\ IF ~SchemaValid(b)
           THEN /\ ~mailOk /\ ~keep
                /\ Fail("signUp", 0, "ValidationError", 0, InvalidPaths(b))
                /\ users' = users
           ELSE IF EmailTaken(b.email)
           THEN /\ ~mailOk /\ ~keep
                /\ Fail("signUp", 0, "E11000 duplicate key", 0, {"email"})
                /\ users' = users
           ELSE /\ users' = Append(users, NewUser(b))
                /\ IF production
                   THEN ConfirmationMail("signUp", id, mailOk, keep, body)
                   ELSE /\ ~mailOk
                        /\ sendJwtToken("signUp", id, 200, keep, body)

(* ------------------------------- login -------------------------------- *)

\* login without the confirmed test
NeedsConfirmation_Never(u) == FALSE

\* if (!user.confirmed)
NeedsConfirmation(u) == ~u.confirmed

\* a login that answers an unknown email differently from a wrong password
Login_Distinguishing(email, password, keep) ==
    /\ UNCHANGED <<production, now, users, resetIssued, fp, completed>>
    /\ IF email = "" \/ password = ""
       THEN /\ ~keep
            /\ Fail("login", 400, "Please provide email and password to login", 0, email)
       ELSE LET found == FindByEmail(email) IN
            IF found = {}
            THEN /\ ~keep
                 /\ Fail("login", 404, "No user exists with that email id", 0, email)
            ELSE IF \A i \in found : ~isPasswordCorrect(password, users[i].password)
            THEN /\ ~keep
                 /\ Fail("login", 401, "Incorrect email or password", 0, email)
            ELSE LET id == CHOOSE i \in found : TRUE IN
                 IF NeedsConfirmation(users[id])
                 THEN /\ ~keep
                      /\ Fail("login", 401, "Please confirm your mail first to login",
                              id, email)
                 ELSE sendJwtToken("login", id, 200, keep, email)

Login(email, password, keep) ==
    /\ UNCHANGED <<production, now, users, resetIssued, fp, completed>>
    /\ IF email = "" \/ password = ""
       THEN /\ ~keep
            /\ Fail("login", 400, "Please provide email and password to login", 0, email)
       ELSE LET found == FindByEmail(email) IN
            IF found = {} \/ \A i \in found : ~isPasswordCorrect(password, users[i].password)
            THEN /\ ~keep
                 /\ Fail("login", 401, "Incorrect email or password", 0, email)
            ELSE LET id == CHOOSE i \in found : TRUE IN
                 IF NeedsConfirmation(users[id])
                 THEN /\ ~keep
                      /\ Fail("login", 401, "Please confirm your mail first to login",
                              id, email)
                 ELSE sendJwtToken("login", id, 200, keep, email)

(* --------------------------- isAuthenticated -------------------------- *)

\* the middleware over a lookup that does not filter on isActive
Verdict_NoActiveFilter(us, t, jwt) ==
    IF jwt = NoJwt
    THEN Outcome("isAuthenticated", 401,
                 "You're not logged in. Please Login to get access to this URL",
                 NoJwt, 0, jwt)
    ELSE IF ~jwt.sig
    THEN Outcome("isAuthenticated", 0, "JsonWebTokenError", NoJwt, 0, jwt)
    ELSE IF Seconds(t) >= jwt.exp
    THEN Outcome("isAuthenticated", 0, "TokenExpiredError", NoJwt, 0, jwt)
    ELSE IF jwt.id \notin DOMAIN us
    THEN Outcome("isAuthenticated", 401,
                 "There's no account with the given email address.", NoJwt, 0, jwt)
    ELSE IF isPasswordChangedAfterTokenIsIssued(us[jwt.id], jwt.iat)
    THEN Outcome("isAuthenticated", 401,
                 "Your account password has been changed. Please login again to continue",
                 NoJwt, 0, jwt)
    ELSE Outcome("isAuthenticated", 0, "next", NoJwt, jwt.id, jwt)

\* what the middleware does with the token of a request when the store is
\* us and the clock reads t: "next" (with req.user = arg) or an error
Verdict(us, t, jwt) ==
    IF jwt = NoJwt
    THEN Outcome("isAuthenticated", 401,
                 "You're not logged in. Please Login to get access to this URL",
                 NoJwt, 0, jwt)
    ELSE IF ~jwt.sig
    THEN Outcome("isAuthenticated", 0, "JsonWebTokenError", NoJwt, 0, jwt)
    ELSE IF Seconds(t) >= jwt.exp
    THEN Outcome("isAuthenticated", 0, "TokenExpiredError", NoJwt, 0, jwt)
    ELSE IF jwt.id \notin DOMAIN us \/ ~us[jwt.id].isActive
    THEN Outcome("isAuthenticated", 401,
                 "There's no account with the given email address.", NoJwt, 0, jwt)
    ELSE IF isPasswordChangedAfterTokenIsIssued(us[jwt.id], jwt.iat)
    THEN Outcome("isAuthenticated", 401,
                 "Your account password has been changed. Please login again to continue",
                 NoJwt, 0, jwt)
    ELSE Outcome("isAuthenticated", 0, "next", NoJwt, jwt.id, jwt)

Authenticate(jwt) == Verdict(users, now, jwt)

Passes(jwt) == Authenticate(jwt).message = "next"

\* the tokens a request may carry: none, one a client holds, or one of
\* those with its payload altered (the signature then fails)
Presentable ==
    {NoJwt} \cup {t.jwt : t \in tokens}
            \cup {[t.jwt EXCEPT !.sig = FALSE] : t \in tokens}

IsAuthenticated(jwt) ==
    /\ out' = Authenticate(jwt)
    /\ UNCHANGED <<production, now, users, tokens, resetIssued, fp, completed>>

(* ------------------------------ restrictTo ---------------------------- *)

\* the sets of roles a route may be restricted to
RoleSets == SUBSET Roles

\* a test that lets every administrator through
RoleAllowed_AdminAlways(roles, role) == role \in roles \/ role = "admin"

\* roles.includes(req.user.role)
RoleAllowed(roles, role) == role \in roles

\* restrictTo(...roles) behind isAuthenticated: req.user is the user the
\* token resolves to
RestrictTo(jwt, roles) ==
    /\ Passes(jwt)
    /\ UNCHANGED <<production, now, users, tokens, resetIssued, fp, completed>>
    /\ LET id == Authenticate(jwt).arg IN
       IF ~RoleAllowed(roles, users[id].role)
       THEN out' = Outcome("restrictTo", 403, "You're not allowed to access this route.",
                           NoJwt, id, roles)
       ELSE out' = Outcome("restrictTo", 0, "next", NoJwt, id, roles)

(* --------------------------- updatePassword --------------------------- *)

\* runs behind isAuthenticated: req.user is the user the token resolves to
UpdatePassword(jwt, currentPassword, newPassword, newPasswordConfirmation, keep) ==
    /\ Passes(jwt)
    /\ UNCHANGED <<production, now, resetIssued, fp, completed>>
    /\ LET id == Authenticate(jwt).arg IN
       IF FindById(id) = {} \/ ~isPasswordCorrect(currentPassword, users[id].password)
       THEN /\ ~keep
            /\ Fail("updatePassword", 401,
                    "Given password doesn't match the current password.", id, jwt)
            /\ users' = users
       ELSE IF newPassword = "" \/ newPassword # newPasswordConfirmation
       THEN /\ ~keep
            /\ Fail("updatePassword", 0, "ValidationError", id, jwt)
            /\ users' = users
       ELSE /\ users' = [users EXCEPT ![id] = WithNewPassword(@, newPassword)]
            /\ sendJwtToken("updatePassword", id, 200, keep, jwt)

(* --------------------------- forgotPassword --------------------------- *)

\* crypto.randomBytes(32): a value never drawn before
FreshResetToken == Len(resetIssued) + 1

\* user.createPasswordResetToken() on document u at the current time
createPasswordResetToken(u, resetToken) ==
    [u EXCEPT !.passwordResetToken = Sha256(resetToken),
              !.passwordResetExpiresIn = now + RESET_TOKEN_TTL]

\* user.passwordResetToken = undefined; user.passwordResetExpiresIn = undefined
ClearResetFields(u) ==
    [u EXCEPT !.passwordResetToken = NoHash, !.passwordResetExpiresIn = NoDate]

\* lines 158-172: the lookup, createPasswordResetToken and the first save
ForgotPasswordStart(r, email) ==
    /\ fp[r].pc = "idle"
    /\ \A q \in Reqs : q < r => fp[q].pc # "idle"   \* a new request takes the first free slot
    /\ UNCHANGED <<production, now, completed>>
    /\ IF email = ""
       THEN /\ Fail("forgotPassword", 400,
                    "Please provide email address to change your password.", 0, email)
            /\ UNCHANGED <<users, resetIssued, fp>>
       ELSE IF FindByEmail(email) = {}
       THEN /\ Fail("forgotPassword", 404, "No user exists with that email id", 0, email)
            /\ UNCHANGED <<users, resetIssued, fp>>
       ELSE LET id == CHOOSE i \in FindByEmail(email) : TRUE
                resetToken == FreshResetToken
            IN  /\ resetToken \in RawTokens
                /\ users' = [users EXCEPT ![id] = createPasswordResetToken(@, resetToken)]
                /\ resetIssued' = Append(resetIssued,
                                         [user |-> id, at |-> now, mailed |-> FALSE,
                                          used |-> FALSE])
                /\ fp' = [fp EXCEPT ![r] = [pc |-> "mail", user |-> id,
                                            resetToken |-> resetToken,
                                            trace |-> <<"persist">>]]
                /\ Fail("forgotPassword", 0, "pending", 0, 0)

\* lines 178-184: await new Email(user, resetURL).sendResetPassword()
ForgotPasswordMail(r, delivered) ==
    /\ fp[r].pc = "mail"
    /\ UNCHANGED <<production, now, users, completed>>
    /\ IF delivered
       THEN /\ resetIssued' = [resetIssued EXCEPT ![fp[r].resetToken].mailed = TRUE]
            /\ fp' = [fp EXCEPT ![r] = IdleReq]
            /\ Fail("forgotPassword", 200,
                    "Token Id (URL) to reset your password was sent to your email address.",
                    fp[r].user, Append(fp[r].trace, "mail"))
       ELSE /\ resetIssued' = resetIssued
            /\ fp' = [fp EXCEPT ![r].pc = "rollback", ![r].trace = Append(@, "mail")]
            /\ Fail("forgotPassword", 0, "pending", 0, 0)

\* a rollback that forgets the expiry
RolledBack_TokenOnly(u) == [u EXCEPT !.passwordResetToken = NoHash]

\* the fields the rollback leaves in the stored document
RolledBack(u) == ClearResetFields(u)

\* lines 185-187: the catch block's save
ForgotPasswordRollback(r) ==
    /\ fp[r].pc = "rollback"
    /\ UNCHANGED <<production, now, resetIssued, completed>>
    /\ users' = [users EXCEPT ![fp[r].user] = RolledBack(@)]
    /\ fp' = [fp EXCEPT ![r].pc = "signal", ![r].trace = Append(@, "clear")]
    /\ Fail("forgotPassword", 0, "pending", 0, 0)

\* lines 188-193: return next(new ErrorHandler(.., 500))
ForgotPasswordSignal(r) ==
    /\ fp[r].pc = "signal"
    /\ UNCHANGED <<production, now, users, resetIssued, completed>>
    /\ fp' = [fp EXCEPT ![r] = IdleReq]
    /\ Fail("forgotPassword", 500,
            "There's some problem with sending email. Please try again later.",
            fp[r].user, Append(fp[r].trace, "error"))

(* ---------------------------- resetPassword --------------------------- *)

\* the lookup without the expiry condition
ResetLookup_NoExpiry(resetToken) ==
    {i \in ActiveIds : users[i].passwordResetToken = Sha256(resetToken)}

\* the lookup with $gte in place of $gt
ResetLookup_Gte(resetToken) ==
    {i \in ActiveIds : /\ users[i].passwordResetToken = Sha256(resetToken)
                       /\ users[i].passwordResetExpiresIn >= now}

\* User.findOne({ passwordResetToken: hashedToken,
\*                passwordResetExpiresIn: { $gt: Date.now() } })
ResetLookup(resetToken) ==
    {i \in ActiveIds : /\ users[i].passwordResetToken = Sha256(resetToken)
                       /\ users[i].passwordResetExpiresIn > now}

\* a save that keeps the reset fields
AfterReset_KeepsToken(u, password) == WithNewPassword(u, password)

\* the document resetPassword saves
AfterReset(u, password) == ClearResetFields(WithNewPassword(u, password))

ResetPassword(resetToken, password, passwordConfirmation, keep) ==
    /\ UNCHANGED <<production, now, fp, completed>>
    /\ IF ResetLookup(resetToken) = {}
       THEN /\ ~keep
            /\ Fail("resetPassword", 400, "Token is invalid or expired.", 0, resetToken)
            /\ UNCHANGED <<users, resetIssued>>
       ELSE LET id == CHOOSE i \in ResetLookup(resetToken) : TRUE IN
            IF password = "" \/ password # passwordConfirmation
            THEN /\ ~keep
                 /\ Fail("resetPassword", 0, "ValidationError", id, resetToken)
                 /\ UNCHANGED <<users, resetIssued>>
            ELSE /\ users' = [users EXCEPT ![id] = AfterReset(@, password)]
                 /\ resetIssued' = [resetIssued EXCEPT ![resetToken].used = TRUE]
                 /\ sendJwtToken("resetPassword", id, 200, keep, resetToken)

(* ----------------------------- confirmMail ---------------------------- *)

\* a confirmation that is not saved
Confirmed_Unsaved(u) == u

\* user.confirmed = true; await user.save({ validateBeforeSave: false })
Confirmed(u) == [u EXCEPT !.confirmed = TRUE]

ConfirmMail(jwt, keep) ==
    /\ UNCHANGED <<production, now, resetIssued, fp, completed>>
    /\ IF jwt = NoJwt
       THEN /\ ~keep
            /\ Fail("confirmMail", 400, "There's something wrong with the URL", 0, jwt)
            /\ users' = users
       ELSE IF ~jwt.sig
       THEN /\ ~keep
            /\ Fail("confirmMail", 0, "JsonWebTokenError", 0, jwt)
            /\ users' = users
       ELSE IF Seconds(now) >= jwt.exp
       THEN /\ ~keep
            /\ Fail("confirmMail", 0, "TokenExpiredError", 0, jwt)
            /\ users' = users
       ELSE IF FindById(jwt.id) = {}
       THEN /\ ~keep
            /\ Fail("confirmMail", 400, "Invalid Token or The token has been modified.",
                    0, jwt)
            /\ users' = users
       ELSE /\ users' = [users EXCEPT ![jwt.id] = Confirmed(@)]
            /\ sendJwtToken("confirmMail", jwt.id, 201, keep, jwt)

(* ----------------------- resendConfirmationMail ----------------------- *)

ResendConfirmationMail(email, mailOk, keep) ==
    /\ UNCHANGED <<production, now, users, resetIssued, fp, completed>>
    /\ IF email = ""
       THEN /\ ~mailOk /\ ~keep
            /\ Fail("resendConfirmationMail", 400,
                    "You must mention your email to send the confirmation link", 0, email)
       ELSE IF FindByEmail(email) = {}
       THEN /\ ~mailOk /\ ~keep
            /\ Fail("resendConfirmationMail", 404,
                    "No user found for the given email address. Try Signing up.", 0, email)
       ELSE ConfirmationMail("resendConfirmationMail",
                             CHOOSE i \in FindByEmail(email) : TRUE, mailOk, keep, email)

(* ------------------------------- clock -------------------------------- *)

Tick(t) ==
    /\ t > now
    /\ now' = t
    /\ out' = Outcome("tick", 0, "", NoJwt, 0, 0)
    /\ UNCHANGED <<production, users, tokens, resetIssued, fp, completed>>

(* ------------------------ Completed controller ------------------------ *)

\* the Test collection and the team relation behind isMemberOfSameTeam
TestIds == {"t1", "t2", "t3"}
ExistingTests == {"t1", "t2"}
TeamMembers == {<<"t1", 1>>, <<"t2", 2>>}

\* Test.findById(id)
FindTest(t) == {x \in ExistingTests : x = t}

isMemberOfSameTeam(test, userId) == <<test, userId>> \in TeamMembers

\* currentCompleted.user.id.toString(): the id of the record's owning user
CompletedUserId(c) == c.user

LiveCompleted == {i \in DOMAIN completed : completed[i].live}

\* the test of the two mutating handlers:
\* currentCompleted.user.id.toString() !== req.user.id && req.user.role !== 'admin'
Denied(c, actor) == CompletedUserId(c) # actor /\ users[actor].role # "admin"

\* the status the two mutating handlers give a denied request
DeniedStatus == 401

CompletedBodies == [user : {0, 1, 2, 3}, test : TestIds \cup {""}]

\* setCompletedBody: req.body.user defaults to req.params.userId
setCompletedBody(body, userId) ==
    IF body.user = 0 THEN [body EXCEPT !.user = userId] ELSE body

AddNewCompleted(jwt, userId, rawBody) ==
    /\ Passes(jwt)
    /\ UNCHANGED <<production, now, users, resetIssued, fp>>
    /\ LET body == setCompletedBody(rawBody, userId)
           actor == Authenticate(jwt).arg
       IN  IF FindById(userId) = {}
           THEN /\ Fail("addNewCompleted", 404, "No user exists with the given Id.",
                        actor, body)
                /\ completed' = completed
           ELSE IF FindTest(body.test) = {}
           THEN /\ Fail("addNewCompleted", 404, "No test exists with the given Id.",
                        actor, body)
                /\ completed' = completed
           ELSE IF ~isMemberOfSameTeam(body.test, userId) /\ users[actor].role # "admin"
           THEN /\ Fail("addNewCompleted", 401,
                        "You don't belong in this team to mark this test as applied.",
                        actor, body)
                /\ completed' = completed
           ELSE /\ Len(completed) < MaxCompleted
                /\ completed' = Append(completed,
                                       [user |-> body.user, test |-> body.test,
                                        live |-> TRUE])
                /\ Fail("addNewCompleted", 201, "success", actor, body)

\* Completed.findByIdAndUpdate(id, req.body): the fields present are set
Updated(c, body) ==
    [c EXCEPT !.user = IF body.user = 0 THEN @ ELSE body.user,
              !.test = IF body.test = "" THEN @ ELSE body.test]

UpdateCompleted(jwt, id, body) ==
    /\ Passes(jwt)
    /\ UNCHANGED <<production, now, users, resetIssued, fp>>
    /\ LET actor == Authenticate(jwt).arg IN
       IF id \notin LiveCompleted
       THEN /\ Fail("updateCompleted", 404,
                    "No Completed Test was found with the given id.", actor, id)
            /\ completed' = completed
       ELSE IF Denied(completed[id], actor)
       THEN /\ Fail("updateCompleted", DeniedStatus,
                    "You don't have permission to do this action.", actor, id)
            /\ completed' = completed
       ELSE /\ completed' = [completed EXCEPT ![id] = Updated(@, body)]
            /\ Fail("updateCompleted", 200, "success", actor, id)

DeleteCompleted(jwt, id) ==
    /\ Passes(jwt)
    /\ UNCHANGED <<production, now, users, resetIssued, fp>>
    /\ LET actor == Authenticate(jwt).arg IN
       IF id \notin LiveCompleted
       THEN /\ Fail("deleteCompleted", 404,
                    "No Completed Test was found with the given id.", actor, id)
            /\ completed' = completed
       ELSE IF Denied(completed[id], actor)
       THEN /\ Fail("deleteCompleted", DeniedStatus,
                    "You don't have permission to do this action.", actor, id)
            /\ completed' = completed
       ELSE /\ completed' = [completed EXCEPT ![id].live = FALSE]
            /\ Fail("deleteCompleted", 204, "success", actor, id)

(* --------------------------- specifications --------------------------- *)

NoOutcome == Outcome("none", 0, "", NoJwt, 0, 0)

\* a confirmed account as signUp and confirmMail leave it
Account(email, role, password) ==
    [email |-> email, role |-> role, password |-> BcryptHash(password),
     passwordChangedAt |-> NoDate, passwordResetToken |-> NoHash,
     passwordResetExpiresIn |-> NoDate, isActive |-> TRUE, confirmed |-> TRUE]

\* the store of a deployment in use: a member and an administrator
Seeded == <<Account("a@x.io", "user", "pw-alpha"), Account("b@x.io", "admin", "pw-alpha")>>

\* the account lifecycle from an empty store
Init ==
    /\ production \in BOOLEAN
    /\ now = Epoch
    /\ users = <<>>
    /\ tokens = {}
    /\ resetIssued = <<>>
    /\ fp = [r \in Reqs |-> IdleReq]
    /\ completed = <<>>
    /\ out = NoOutcome

Next ==
    \/ \E body \in SignUpBodies, mailOk, keep \in BOOLEAN : SignUp(body, mailOk, keep)
    \/ \E e \in EmailInputs, p \in PasswordInputs, keep \in BOOLEAN : Login(e, p, keep)
    \/ \E jwt \in Presentable, keep \in BOOLEAN : ConfirmMail(jwt, keep)
    \/ \E e \in EmailInputs, mailOk, keep \in BOOLEAN :
          ResendConfirmationMail(e, mailOk, keep)
    \/ \E jwt \in Presentable : IsAuthenticated(jwt)

Spec == Init /\ [][Next]_vars

\* sessions of the seeded accounts while passwords change and time passes
InitSession ==
    /\ production = TRUE
    /\ now = Epoch
    /\ users = [Seeded EXCEPT ![1] = createPasswordResetToken(@, 1)]
    /\ tokens = {}
    /\ resetIssued = <<[user |-> 1, at |-> Epoch, mailed |-> TRUE, used |-> FALSE]>>
    /\ fp = [r \in Reqs |-> IdleReq]
    /\ completed = <<>>
    /\ out = NoOutcome

NextSession ==
    \/ \E e \in {"a@x.io"}, p \in Passwords, keep \in BOOLEAN : Login(e, p, keep)
    \/ \E jwt \in Presentable, cur, new, conf \in Passwords, keep \in BOOLEAN :
          UpdatePassword(jwt, cur, new, conf, keep)
    \/ \E t \in ResetInputs, p, c \in Passwords, keep \in BOOLEAN :
          ResetPassword(t, p, c, keep)
    \/ \E jwt \in Presentable : IsAuthenticated(jwt)
    \/ \E t \in FineInstants \cup JwtInstants : Tick(t)

SpecSession == InitSession /\ [][NextSession]_vars

\* the password-reset flow of the seeded accounts
InitReset ==
    /\ production = TRUE
    /\ now = Epoch
    /\ users = Seeded
    /\ tokens = {}
    /\ resetIssued = <<>>
    /\ fp = [r \in Reqs |-> IdleReq]
    /\ completed = <<>>
    /\ out = NoOutcome

NextReset ==
    \/ \E r \in Reqs, e \in {"A@X.io", "not-an-email", ""} :
          ForgotPasswordStart(r, e)
    \/ \E r \in Reqs, delivered \in BOOLEAN : ForgotPasswordMail(r, delivered)
    \/ \E r \in Reqs : ForgotPasswordRollback(r)
    \/ \E r \in Reqs : ForgotPasswordSignal(r)
    \/ \E t \in ResetInputs, p, c \in {"pw-bravo", ""} : ResetPassword(t, p, c, FALSE)
    \/ \E t \in ResetInstants : Tick(t)

SpecReset == InitReset /\ [][NextReset]_vars

\* the Completed records of the seeded accounts, each holding a session
InitCompleted ==
    /\ production = TRUE
    /\ now = Epoch
    /\ users = Seeded
    /\ tokens = {Handed(getJwtToken(i), "session") : i \in {1, 2}}
    /\ resetIssued = <<>>
    /\ fp = [r \in Reqs |-> IdleReq]
    /\ completed = <<>>
    /\ out = NoOutcome

NextCompleted ==
    \/ \E jwt \in Presentable, u \in 1..3, b \in CompletedBodies :
          AddNewCompleted(jwt, u, b)
    \/ \E jwt \in Presentable, id \in 1..MaxCompleted, b \in CompletedBodies :
          UpdateCompleted(jwt, id, b)
    \/ \E jwt \in Presentable, id \in 1..MaxCompleted : DeleteCompleted(jwt, id)

SpecCompleted == InitCompleted /\ [][NextCompleted]_vars

\* the request gate: tokens of accounts of every role, of soft-deleted
\* accounts and of an account since removed from the collection
GateStores ==
    {[i \in 1..2 |-> [Seeded[i] EXCEPT !.role = r[i], !.isActive = a[i]]] :
        r \in [1..2 -> Roles], a \in [1..2 -> BOOLEAN]}

InitGate ==
    /\ production = TRUE
    /\ now = Epoch
    /\ users \in GateStores
    /\ tokens = {Handed(getJwtToken(i), "session") : i \in 1..3}
    /\ resetIssued = <<>>
    /\ fp = [r \in Reqs |-> IdleReq]
    /\ completed = <<>>
    /\ out = NoOutcome

NextGate ==
    \/ \E jwt \in Presentable : IsAuthenticated(jwt)
    \/ \E jwt \in Presentable, roles \in RoleSets : RestrictTo(jwt, roles)
    \/ \E t \in FineInstants \cup JwtInstants : Tick(t)

SpecGate == InitGate /\ [][NextGate]_vars

\* the life of one account from the moment signUp has stored it
\* unconfirmed: confirmation, login, password reset and password change
InitLifecycle ==
    /\ production \in BOOLEAN
    /\ now = Epoch
    /\ users = <<[Account("a@x.io", "user", "pw-alpha") EXCEPT !.confirmed = FALSE]>>
    /\ tokens = {}
    /\ resetIssued = <<>>
    /\ fp = [r \in Reqs |-> IdleReq]
    /\ completed = <<>>
    /\ out = NoOutcome

NextLifecycle ==
    \/ \E p \in Passwords, keep \in BOOLEAN : Login("a@x.io", p, keep)
    \/ \E e \in {"A@X.io", "b@x.io"} : ForgotPasswordStart(1, e)
    \/ \E delivered \in BOOLEAN : ForgotPasswordMail(1, delivered)
    \/ ForgotPasswordRollback(1)
    \/ ForgotPasswordSignal(1)
    \/ \E t \in ResetInputs, c \in Passwords, keep \in BOOLEAN :
          ResetPassword(t, "pw-bravo", c, keep)
    \/ \E jwt \in Presentable, cur, new \in Passwords, keep \in BOOLEAN :
          UpdatePassword(jwt, cur, new, new, keep)
    \/ \E jwt \in Presentable, keep \in BOOLEAN : ConfirmMail(jwt, keep)
    \/ \E e \in {"a@x.io", "b@x.io"}, mailOk, keep \in BOOLEAN :
          ResendConfirmationMail(e, mailOk, keep)
    \/ \E jwt \in Presentable : IsAuthenticated(jwt)

SpecLifecycle == InitLifecycle /\ [][NextLifecycle]_vars

(* ------------------------------- claims ------------------------------- *)

\* the time of the password change that passwordChangedAt records
ChangeTime(u) == u.passwordChangedAt + 1000

\* the tokens a client holds that were signed for a user whose password
\* was changed later than the token was signed
SignedBeforeChange ==
    {tk \in tokens : /\ tk.jwt.id \in DOMAIN users
                     /\ users[tk.jwt.id].passwordChangedAt # NoDate
                     /\ tk.at < ChangeTime(users[tk.jwt.id])}

\* C1: once a user's password has been changed at time T, every
\* isAuthenticated call with a token issued before T fails, however
\* shortly before T the token was issued.
C1_StaleTokenAlwaysRejected ==
    (out.op = "isAuthenticated" /\ \E tk \in SignedBeforeChange : tk.jwt = out.req)
        => out.message # "next"

\* C2: a token issued by or after a password change is accepted by
\* isAuthenticated when it is issued, and stays accepted for as long as the
\* password is not changed again and the token has not expired.
C2_FreshTokenAccepted ==
    [][/\ (out'.op \in {"resetPassword", "updatePassword"} /\ out'.status = 200)
            => /\ out'.tokenId.id = out'.arg
               /\ users'[out'.arg].passwordChangedAt # NoDate
               /\ Verdict(users', now', out'.tokenId).message = "next"
       /\ \A tk \in tokens' \ tokens :
            users'[tk.jwt.id].passwordChangedAt # NoDate
                => Verdict(users', now', tk.jwt).message = "next"
       /\ \A tk \in tokens :
            (/\ Passes(tk.jwt)
             /\ users'[tk.jwt.id].password = users[tk.jwt.id].password
             /\ users'[tk.jwt.id].passwordChangedAt = users[tk.jwt.id].passwordChangedAt
             /\ Seconds(now') < tk.jwt.exp)
            => Verdict(users', now', tk.jwt).message = "next"
      ]_vars

\* a token signed after a password change was presented and let through
C2_Witness ==
    /\ out.op = "isAuthenticated"
    /\ out.message = "next"
    /\ \E tk \in tokens :
         /\ tk.jwt = out.req
         /\ users[tk.jwt.id].passwordChangedAt # NoDate
         /\ tk.at >= ChangeTime(users[tk.jwt.id])

\* the accounts login finds for an email whose password is the one given
Matching(email, password) ==
    {i \in ActiveIds : /\ users[i].email = Lowercase(email)
                       /\ users[i].password = BcryptHash(password)}

\* C3: login with the right email and password of an unconfirmed user
\* fails with 401 and hands out no token; login hands out a token only for
\* matching credentials of a confirmed user.
C3_UnconfirmedLoginRefused ==
    [][out'.op = "login" =>
       \A e \in EmailInputs, p \in PasswordInputs, keep \in BOOLEAN :
         Login(e, p, keep) =>
           /\ (\E i \in Matching(e, p) : ~users[i].confirmed)
                => /\ out'.status = 401
                   /\ out'.tokenId = NoJwt
                   /\ tokens' = tokens
           /\ (out'.tokenId # NoJwt \/ tokens' # tokens)
                => \E i \in Matching(e, p) : /\ users[i].confirmed
                                             /\ out'.tokenId.id = i
                                             /\ out'.status = 200
      ]_vars

\* an unconfirmed user's login with the right password was refused
C3_Witness ==
    /\ out.op = "login"
    /\ out.status = 401
    /\ out.arg \in DOMAIN users
    /\ ~users[out.arg].confirmed
    /\ out.tokenId = NoJwt

\* a signUp step that answered with an error
SignUpFailed ==
    /\ out'.status = 0
    /\ out'.message \in {"ValidationError", "E11000 duplicate key"}
    /\ out'.tokenId = NoJwt
    /\ out'.mail = NoJwt
    /\ users' = users
    /\ tokens' = tokens

\* a signUp step that stored the payload out'.req as a new user
SignUpStored ==
    /\ Len(users') = Len(users) + 1
    /\ \A i \in DOMAIN users : users'[i] = users[i]
    /\ out'.arg = Len(users')
    /\ out'.req \in SignUpBodies

\* C7: signUp with a password that differs from its confirmation, a
\* malformed email or an email already stored fails, stores no user and
\* produces neither a session token nor a confirmation mail: every signUp
\* either fails that way or stores a payload with none of these defects.
C7_RejectedSignUpStoresNothing ==
    [][out'.op = "signUp" =>
       \/ SignUpFailed
       \/ /\ SignUpStored
          /\ out'.req.password = out'.req.passwordConfirmation
          /\ out'.req.email # "not-an-email"
          /\ \A i \in DOMAIN users : users[i].email # Lowercase(out'.req.email)
          /\ users'[out'.arg].email = Lowercase(out'.req.email)
          /\ users'[out'.arg].password = BcryptHash(out'.req.password)
      ]_vars

\* a signUp was rejected for its password confirmation alone
C7_Witness ==
    /\ out.op = "signUp"
    /\ out.message = "ValidationError"
    /\ out.req = {"passwordConfirmation"}

\* C8: in production signUp ignores role and confirmed of the payload: the
\* user it creates has role 'user' and is unconfirmed, a success response
\* means the confirmation mail was sent and it carries no session token; in
\* other modes signUp hands out a session token for the new user and
\* sends no mail.
C8_SignUpByMode ==
    [][(out'.op = "signUp" /\ users' # users) =>
         LET id == Len(users') IN
         /\ SignUpStored
         /\ IF production
            THEN /\ users'[id].role = "user"
                 /\ users'[id].confirmed = FALSE
                 /\ out'.tokenId = NoJwt
                 /\ \A tk \in tokens' \ tokens : tk.via = "mail" /\ tk.jwt.id = id
                 /\ out'.status = 200 => (out'.mail # NoJwt /\ out'.mail.id = id)
                 /\ out'.status # 200 => (out'.mail = NoJwt /\ tokens' = tokens)
            ELSE /\ users'[id].role = (IF out'.req.role = "" THEN "user" ELSE out'.req.role)
                 /\ users'[id].confirmed = out'.req.confirmed
                 /\ out'.status = 200
                 /\ out'.tokenId # NoJwt
                 /\ out'.tokenId.id = id
                 /\ out'.mail = NoJwt
                 /\ \A tk \in tokens' \ tokens : tk.via = "session" /\ tk.jwt.id = id
      ]_vars

\* a production signUp whose payload asked for role admin succeeded
C8_Witness ==
    /\ production
    /\ out.op = "signUp"
    /\ out.status = 200
    /\ out.req.role = "admin"
    /\ out.tokenId = NoJwt
    /\ out.mail # NoJwt
    /\ users[out.arg].role = "user"
    /\ ~users[out.arg].confirmed

\* the forgotPassword requests that take a step
Stepping == {r \in Reqs : fp'[r] # fp[r]}

\* the reset fields of user i are unset in store us
ResetFieldsCleared(us, i) ==
    /\ us[i].passwordResetToken = NoHash
    /\ us[i].passwordResetExpiresIn = NoDate

\* C4: when forgotPassword has persisted a reset token and the mail then
\* throws, the request goes on to clear passwordResetToken and
\* passwordResetExpiresIn of the user, only then signals the error, and the
\* error is a 500: persist, mail attempt, clear, error, in that order.
C4_RollbackBeforeError ==
    [][/\ \A r \in Stepping :
         /\ fp[r].pc = "mail" =>
              /\ fp[r].trace = <<"persist">>
              /\ fp'[r].pc \in {"idle", "rollback"}
              /\ fp'[r].pc = "rollback" => (users' = users /\ out'.status = 0)
              /\ fp'[r].pc = "idle" => out'.status = 200
         /\ fp[r].pc = "rollback" =>
              /\ fp[r].trace = <<"persist", "mail">>
              /\ fp'[r].pc = "signal"
              /\ ResetFieldsCleared(users', fp[r].user)
              /\ \A i \in DOMAIN users : i # fp[r].user => users'[i] = users[i]
              /\ out'.status = 0
         /\ fp[r].pc = "signal" =>
              /\ fp[r].trace = <<"persist", "mail", "clear">>
              /\ fp'[r].pc = "idle"
              /\ users' = users
              /\ out'.op = "forgotPassword"
              /\ out'.status = 500
              /\ out'.req = <<"persist", "mail", "clear", "error">>
       /\ (out'.op = "forgotPassword" /\ out'.status = 500) =>
              \E q \in Stepping : fp[q].pc = "signal"
      ]_vars

\* a forgotPassword request whose mail failed has answered 500 after its
\* rollback
C4_Witness ==
    /\ out.op = "forgotPassword"
    /\ out.status = 500
    /\ out.req = <<"persist", "mail", "clear", "error">>
    /\ ResetFieldsCleared(users, out.arg)

\* no stored digest is that of token t
UnknownToken(t) ==
    \A i \in DOMAIN users : users[i].passwordResetToken # Sha256(t)

\* some user holds the digest of token t and its expiry has passed
ExpiredToken(t) ==
    \E i \in DOMAIN users : /\ users[i].passwordResetToken = Sha256(t)
                            /\ users[i].passwordResetExpiresIn <= now

\* C5: resetPassword with a token that matches no stored digest, or with
\* one whose expiry has passed, fails with the same 400 and message in both
\* cases and changes no user.
C5_UnknownOrExpiredSameError ==
    [][(out'.op = "resetPassword" /\ (UnknownToken(out'.req) \/ ExpiredToken(out'.req)))
         => /\ out'.status = 400
            /\ out'.message = "Token is invalid or expired."
            /\ out'.tokenId = NoJwt
            /\ users' = users
            /\ tokens' = tokens
      ]_vars

\* a resetPassword with an expired token was refused
C5_Witness ==
    /\ out.op = "resetPassword"
    /\ out.status = 400
    /\ ExpiredToken(out.req)

\* C9: after a resetPassword succeeded with token t, every later
\* resetPassword with t fails with 400 and changes nothing.
C9_ResetTokenOneTime ==
    [][(/\ out'.op = "resetPassword"
        /\ out'.req \in DOMAIN resetIssued
        /\ resetIssued[out'.req].used)
         => /\ out'.status = 400
            /\ users' = users
            /\ out'.tokenId = NoJwt
      ]_vars

\* a token that had already reset a password was presented again and refused
C9_Witness ==
    /\ out.op = "resetPassword"
    /\ out.status = 400
    /\ out.req \in DOMAIN resetIssued
    /\ resetIssued[out.req].used

\* token t was created by forgotPassword and its digest is still the one
\* its user stores: not consumed, not overwritten, not rolled back
LiveToken(t) ==
    /\ t \in DOMAIN resetIssued
    /\ resetIssued[t].user \in ActiveIds
    /\ users[resetIssued[t].user].passwordResetToken = Sha256(t)

\* C10: the store holds a reset token only as its digest, never the raw
\* token, and resetPassword refuses a live token created at t0 with 400
\* exactly when the clock has reached t0 + 10 minutes.
C10_ResetTokenLifetime ==
    [][/\ \A i \in DOMAIN users' :
            users'[i].passwordResetToken # NoHash =>
              /\ users'[i].passwordResetToken \notin DOMAIN resetIssued'
              /\ \E t \in DOMAIN resetIssued' :
                   /\ users'[i].passwordResetToken = Sha256(t)
                   /\ resetIssued'[t].user = i
       /\ (out'.op = "resetPassword" /\ LiveToken(out'.req))
            => (out'.status = 400 <=> now >= resetIssued[out'.req].at + 10 * 60 * 1000)
      ]_vars

\* a live token was accepted some time after t0 and less than ten minutes
\* after it
C10_Witness ==
    /\ out.op = "resetPassword"
    /\ out.status = 200
    /\ out.req \in DOMAIN resetIssued
    /\ now > resetIssued[out.req].at
    /\ now < resetIssued[out.req].at + 10 * 60 * 1000

\* C6: updateCompleted and deleteCompleted on an existing record succeed
\* for the record's owning user and for an admin, and for every other
\* authenticated user fail with 403 and leave the record unchanged.
C6_OwnerOrAdminElse403 ==
    [][(out'.op \in {"updateCompleted", "deleteCompleted"} /\ out'.req \in LiveCompleted)
         => IF completed[out'.req].user = out'.arg \/ users[out'.arg].role = "admin"
            THEN out'.status \in {200, 204}
            ELSE out'.status = 403 /\ completed' = completed
      ]_vars

\* in store us, the user of held token tk exists, is active and has not
\* changed password since tk was signed
StillValidFor(us, tk) ==
    /\ tk.jwt.id \in DOMAIN us
    /\ us[tk.jwt.id].isActive
    /\ \/ us[tk.jwt.id].passwordChangedAt = NoDate
       \/ ChangeTime(us[tk.jwt.id]) <= tk.at

\* C11: a session token is issued carrying the id of the user U it is
\* issued for, and whenever it is presented to isAuthenticated before its
\* expiry while U exists, is active and has not changed password since,
\* the request is let through with req.user = U and no other user.
C11_TokenRoundTrip ==
    [][/\ \A tk \in tokens' \ tokens : tk.jwt.sig /\ tk.jwt.id = out'.arg
       /\ (out'.tokenId # NoJwt) => out'.tokenId.id = out'.arg
       /\ \A tk \in tokens' :
            (Seconds(now') < tk.jwt.exp /\ StillValidFor(users', tk))
                => /\ Verdict(users', now', tk.jwt).message = "next"
                   /\ Verdict(users', now', tk.jwt).arg = tk.jwt.id
       /\ (out'.op = "isAuthenticated" /\ out'.message = "next")
            => /\ out'.arg = out'.req.id
               /\ out'.req.sig
      ]_vars

\* a held token was presented some time after it was signed, by then for
\* a user whose password had been changed before the token was signed,
\* and the request resolved to that user
C11_Witness ==
    /\ out.op = "isAuthenticated"
    /\ out.message = "next"
    /\ \E tk \in tokens : /\ tk.jwt = out.req
                          /\ tk.at < now
                          /\ users[tk.jwt.id].passwordChangedAt # NoDate
                          /\ out.arg = tk.jwt.id

\* the token of a request is missing, fails verification or has expired,
\* or names a user that is not in the collection or is soft-deleted
Unacceptable(jwt) ==
    \/ jwt = NoJwt
    \/ ~jwt.sig
    \/ Seconds(now) >= jwt.exp
    \/ jwt.id \notin DOMAIN users
    \/ ~users[jwt.id].isActive

\* C12: isAuthenticated never lets a request through when its token is
\* missing, fails verification or has expired, names a user that no longer
\* exists or names a soft-deleted user; each such request fails with 401.
C12_GateRefuses ==
    (out.op = "isAuthenticated" /\ Unacceptable(out.req))
        => /\ out.message # "next"
           /\ out.arg = 0
           /\ ResponseStatus(out) = 401

\* a verifiable, unexpired token of a soft-deleted user was refused
C12_Witness ==
    /\ out.op = "isAuthenticated"
    /\ out.req # NoJwt
    /\ out.req.sig
    /\ Seconds(now) < out.req.exp
    /\ out.req.id \in DOMAIN users
    /\ ~users[out.req.id].isActive
    /\ out.status = 401

\* C13: restrictTo(roles...) calls next without error exactly when the
\* role of the authenticated user is one of roles and otherwise fails
\* with 403; restrictTo('admin') lets every admin through and no user or
\* rep; and it changes no state.
C13_RestrictTo ==
    [][out'.op = "restrictTo" =>
         /\ out'.arg \in ActiveIds
         /\ (out'.message = "next") <=> (users[out'.arg].role \in out'.req)
         /\ (out'.message # "next") => out'.status = 403
         /\ (out'.message = "next") => out'.status = 0
         /\ out'.req = {"admin"} =>
               ((out'.message = "next") <=> (users[out'.arg].role = "admin"))
         /\ UNCHANGED <<production, now, users, tokens, resetIssued, fp, completed>>
      ]_vars

\* restrictTo('admin') let an administrator through
C13_WitnessAllow ==
    /\ out.op = "restrictTo"
    /\ out.req = {"admin"}
    /\ users[out.arg].role = "admin"
    /\ out.message = "next"

\* restrictTo('admin') refused a caller of role rep with 403
C13_Witness ==
    /\ out.op = "restrictTo"
    /\ out.req = {"admin"}
    /\ users[out.arg].role = "rep"
    /\ out.status = 403

\* C14: every Completed record addNewCompleted creates has, when it is
\* created, an owning user (its stored user field) that exists and a test
\* that exists, and is created by an acting user who is an admin or a
\* member of the team of the test; otherwise no record is created.
C14_CreatedRecordIsSound ==
    [][(out'.op = "addNewCompleted" /\ completed' # completed) =>
         LET c == completed'[Len(completed')] IN
         /\ c.user \in ActiveIds
         /\ c.test \in ExistingTests
         /\ \/ users[out'.arg].role = "admin"
            \/ isMemberOfSameTeam(c.test, out'.arg)
      ]_vars

\* what login answers when the credentials match no account
LoginRefusal(email) ==
    [Outcome("login", 401, "Incorrect email or password", NoJwt, 0, 0) EXCEPT !.req = email]

\* C15: login with an email and a password that match no account answers
\* 401 with one message and no token, the same whether the email belongs
\* to no user or to a user with another password.
C15_LoginDoesNotRevealEmail ==
    [][out'.op = "login" =>
       \A p \in Passwords, keep \in BOOLEAN :
         (Login(out'.req, p, keep) /\ out'.req # "" /\ Matching(out'.req, p) = {})
           => /\ out' = LoginRefusal(out'.req)
              /\ tokens' = tokens
              /\ users' = users
      ]_vars

\* a login with the email of an existing user and a wrong password was
\* refused
C15_Witness ==
    /\ out.op = "login"
    /\ out = LoginRefusal(out.req)
    /\ FindByEmail(out.req) # {}

\* a login with an email of no user was refused the same way
C15_WitnessUnknownEmail ==
    /\ out.op = "login"
    /\ out = LoginRefusal(out.req)
    /\ out.req # ""
    /\ FindByEmail(out.req) = {}

\* the values a response carries in its body and cookie
Carried(o) ==
    {o.document[i].password : i \in 1..Len(o.document)}

\* C16: no response of signUp, login, resetPassword, updatePassword or
\* confirmMail carries a password hash: in every response sendJwtToken
\* writes, the password path of the user document is absent.
C16_NoPasswordInResponse ==
    /\ Carried(out) \subseteq {NoPassword}
    /\ \A i \in DOMAIN users : users[i].password \notin Carried(out)
    /\ (out.tokenId # NoJwt) => Len(out.document) = 1

\* sendJwtToken has answered for a user whose stored password is a hash
C16_Witness ==
    /\ out.tokenId # NoJwt
    /\ Len(out.document) = 1
    /\ users[out.arg].password # NoPassword
    /\ out.document[1].email = users[out.arg].email
    /\ out.document[1].password = NoPassword

\* the token of a confirmMail request verifies, has not expired and names
\* a user the lookup finds
ValidConfirmation(jwt) ==
    /\ jwt # NoJwt
    /\ jwt.sig
    /\ Seconds(now) < jwt.exp
    /\ FindById(jwt.id) # {}

\* C17: confirmMail with a valid token of an existing user sets confirmed
\* and issues a session token; a confirmed flag that is true stays true
\* through login, forgotPassword, resetPassword, updatePassword,
\* confirmMail and resendConfirmationMail; and in production only
\* confirmMail turns confirmed from false to true.
C17_ConfirmationMonotonic ==
    [][/\ (out'.op = "confirmMail" /\ ValidConfirmation(out'.req))
            => /\ out'.status = 201
               /\ out'.arg = out'.req.id
               /\ users'[out'.arg].confirmed
               /\ out'.tokenId # NoJwt
               /\ out'.tokenId.id = out'.arg
       /\ (out'.op = "confirmMail" /\ ~ValidConfirmation(out'.req))
            => (out'.tokenId = NoJwt /\ users' = users)
       /\ \A i \in DOMAIN users : users[i].confirmed => users'[i].confirmed
       /\ production =>
            \A i \in DOMAIN users :
              (~users[i].confirmed /\ users'[i].confirmed)
                 => (out'.op = "confirmMail" /\ out'.arg = i)
      ]_vars

\* a confirmed user has since had the password reset
C17_Witness ==
    /\ out.op = "resetPassword"
    /\ out.status = 200
    /\ users[out.arg].confirmed
    /\ users[out.arg].passwordChangedAt # NoDate

\* C18: in production a user whose confirmed flag is false never holds a
\* credential isAuthenticated accepts: neither a session token handed out
\* by an operation other than confirmMail, nor the token of the
\* confirmation link.
C18_UnconfirmedHoldsNoCredential ==
    production =>
        \A tk \in tokens :
            (tk.jwt.id \in DOMAIN users /\ ~users[tk.jwt.id].confirmed) => ~Passes(tk.jwt)

\* resetPassword would accept reset token t against store us at this time
AcceptedIn(us, t) ==
    \E i \in DOMAIN us : /\ us[i].isActive
                         /\ us[i].passwordResetToken = Sha256(t)
                         /\ us[i].passwordResetExpiresIn > now

\* C19: when two forgotPassword requests for one user interleave, the
\* rollback of the request whose mail failed leaves the reset token of the
\* other request, whose mail was delivered, accepted by resetPassword.
C19_RollbackSparesDeliveredToken ==
    [][\A r \in Stepping :
         fp[r].pc = "rollback" =>
           \A t \in DOMAIN resetIssued :
             (/\ t # fp[r].resetToken
              /\ resetIssued[t].user = fp[r].user
              /\ resetIssued[t].mailed
              /\ ~resetIssued[t].used
              /\ AcceptedIn(users, t))
                => AcceptedIn(users', t)
      ]_vars

\* the handler returned, or its promise was dropped, without a response
\* written and without an error handed to next
Unanswered(o) == o.status = 0 /\ o.message = "unhandled rejection"

\* C20: every signUp and resendConfirmationMail request ends with one
\* outcome, a response or an error handed to the error handler, also when
\* the confirmation mail cannot be delivered.
C20_EveryRequestAnswered ==
    out.op \in {"signUp", "resendConfirmationMail"} => ~Unanswered(out)

====
